---- MODULE Spec2Model ----
(***************************************************************************)
(* The Gain Scorer of ht-N/CryptoAnalysis (src/frontend/agents/scorer.py)  *)
(* and its caller in the pipeline (src/backend/pipeline.py).               *)
(*                                                                         *)
(* Conventions:                                                            *)
(*  - a coin name is a sequence of one-character strings, so that          *)
(*    str.upper() is computed character by character;                      *)
(*  - a percentage or a price is an integer number of hundredths (the      *)
(*    predictor rounds every stored field to two decimals): 7.99 is 799;   *)
(*  - a quotient k/n is the reduced fraction [num, den]: two divisions     *)
(*    give the same float exactly when they give the same fraction;        *)
(*  - a DataFrame is [columns |-> sequence of names, rows |-> sequence of  *)
(*    records]; None is the Python None, NaN the missing value.            *)
(***************************************************************************)
EXTENDS Integers, Sequences, FiniteSets, TLC

VARIABLES
    pc,              \* "build", "returned", "raised" or "skipped"
    predictions_df,  \* the caller's prediction table (state['prediction_results'])
    sentiments_df,   \* the caller's sentiment table (state['sentiment_results'])
    output_df,       \* the value returned by run_scoring_flow / 'final_scoring'
    predictions_in,  \* history: the prediction table as passed at the call
    sentiments_in,   \* history: the sentiment table as passed at the call
    arg,             \* argument of a pure function under test
    ret,             \* <<its return value>>, <<>> before it returns
    predictor,       \* the CryptoPricePredictor object, None before it exists
    batch,           \* progress and printed lines of predict_all_cryptos
    node,            \* the pipeline's current node, "none" outside a run
    sentiment        \* the get_sentiment invocation in progress or last returned

vars == <<pc, predictions_df, sentiments_df, output_df, predictions_in,
          sentiments_in, arg, ret, predictor, batch, node, sentiment>>

\* what the scorer's own steps leave alone
predictor_vars == <<predictor, batch, node>>

\* Python's None and the float NaN, as records of their own shape
None == [none |-> TRUE]
NaN == [nan |-> TRUE]
\* no value returned yet
NoValue == <<>>

\* no predict_all_cryptos has run
NoBatch == [calls |-> 0, i |-> 0, first |-> 0, log |-> <<>>]

\* no get_sentiment has been entered
NoSentiment == [pc |-> "idle", content |-> None, calls |-> <<>>, label |-> NoValue]

NoPredictor ==
    /\ predictor = None
    /\ batch = NoBatch
    /\ node = "none"

(***************************************************************************)
(* Bounds of the model.                                                    *)
(***************************************************************************)
MaxPred == 2
MaxSent == 2
MaxGain == 1000
MaxNameLen == 3
MaxRaw == 6
PriceStep == 7
MaxSymbols == 2
MaxCalls == 2
MaxMse == 1
MaxHorizon == 2
MaxFeatureRows == 3

(***************************************************************************)
(* Strings.                                                                *)
(***************************************************************************)
ToUpper ==
    ("a" :> "A") @@ ("b" :> "B") @@ ("c" :> "C") @@ ("d" :> "D") @@
    ("e" :> "E") @@ ("f" :> "F") @@ ("g" :> "G") @@ ("h" :> "H") @@
    ("i" :> "I") @@ ("j" :> "J") @@ ("k" :> "K") @@ ("l" :> "L") @@
    ("m" :> "M") @@ ("n" :> "N") @@ ("o" :> "O") @@ ("p" :> "P") @@
    ("q" :> "Q") @@ ("r" :> "R") @@ ("s" :> "S") @@ ("t" :> "T") @@
    ("u" :> "U") @@ ("v" :> "V") @@ ("w" :> "W") @@ ("x" :> "X") @@
    ("y" :> "Y") @@ ("z" :> "Z")

upper(s) ==
    [i \in DOMAIN s |-> IF s[i] \in DOMAIN ToUpper THEN ToUpper[s[i]] ELSE s[i]]

BITCOIN  == <<"B", "I", "T", "C", "O", "I", "N">>
ETHEREUM == <<"E", "T", "H", "E", "R", "E", "U", "M">>
DOGECOIN == <<"D", "O", "G", "E", "C", "O", "I", "N">>
AVAXUSDT == <<"A", "V", "A", "X", "U", "S", "D", "T">>
TONCOIN  == <<"T", "O", "N", "C", "O", "I", "N">>
BTC      == <<"B", "T", "C">>
ETH      == <<"E", "T", "H">>
DOGE     == <<"D", "O", "G", "E">>
AVAX     == <<"A", "V", "A", "X">>
XRP      == <<"X", "R", "P">>
SUI      == <<"S", "U", "I">>
SUI20947 == <<"S", "U", "I", "2", "0", "9", "4", "7">>
ADA      == <<"A", "D", "A">>
TON11419 == <<"T", "O", "N", "1", "1", "4", "1", "9">>
SOL      == <<"S", "O", "L">>
BNB      == <<"B", "N", "B">>
TRX      == <<"T", "R", "X">>

(***************************************************************************)
(* scorer.py: the tier score.  gain_percent is in hundredths of a percent. *)
(***************************************************************************)
MutScoreClosedTopTier(gain_percent) ==
    IF gain_percent < 0 THEN 0
    ELSE IF 0 <= gain_percent /\ gain_percent < 200 THEN 1
    ELSE IF 200 <= gain_percent /\ gain_percent < 400 THEN 2
    ELSE IF 400 <= gain_percent /\ gain_percent < 600 THEN 3
    ELSE IF 600 <= gain_percent /\ gain_percent <= 800 THEN 4
    ELSE 8

_calculate_prediction_score(gain_percent) ==
    IF gain_percent < 0 THEN 0
    ELSE IF 0 <= gain_percent /\ gain_percent < 200 THEN 1
    ELSE IF 200 <= gain_percent /\ gain_percent < 400 THEN 2
    ELSE IF 400 <= gain_percent /\ gain_percent < 600 THEN 3
    ELSE IF 600 <= gain_percent /\ gain_percent < 800 THEN 4
    ELSE 8

(***************************************************************************)
(* scorer.py: name reconciliation.                                         *)
(***************************************************************************)
\* the table with one entry entered in both directions
MutMapWithReverseEntry ==
    (BITCOIN :> BTC) @@ (BTC :> BITCOIN) @@ (ETHEREUM :> ETH) @@
    (DOGECOIN :> DOGE) @@ (AVAXUSDT :> AVAX) @@ (XRP :> XRP) @@
    (SUI :> SUI20947) @@ (ADA :> ADA) @@ (TONCOIN :> TON11419) @@
    (SOL :> SOL) @@ (BNB :> BNB) @@ (TRX :> TRX)

name_to_symbol_map ==
    (BITCOIN :> BTC) @@ (ETHEREUM :> ETH) @@ (DOGECOIN :> DOGE) @@
    (AVAXUSDT :> AVAX) @@ (XRP :> XRP) @@ (SUI :> SUI20947) @@
    (ADA :> ADA) @@ (TONCOIN :> TON11419) @@ (SOL :> SOL) @@
    (BNB :> BNB) @@ (TRX :> TRX)

\* the lookup without the upper-casing
MutStandardizeCaseSensitive(long_name) ==
    IF long_name \in DOMAIN name_to_symbol_map
    THEN name_to_symbol_map[long_name]
    ELSE long_name

\* the upper-casing without the lookup
MutStandardizeNoLookup(long_name) == upper(long_name)

standardize_name(long_name) ==
    LET upper_name == upper(long_name)
    IN  IF upper_name \in DOMAIN name_to_symbol_map
        THEN name_to_symbol_map[upper_name]
        ELSE upper_name

(***************************************************************************)
(* Numbers: k / n as a reduced fraction, int + float, float < float.       *)
(***************************************************************************)
RECURSIVE GCD(_, _)
GCD(a, b) == IF b = 0 THEN a ELSE GCD(b, a % b)

TrueDiv(k, n) ==
    LET g == GCD(k, n) IN [num |-> k \div g, den |-> n \div g]

Zero == TrueDiv(0, 1)

Plus(i, x) ==
    IF x = NaN THEN NaN ELSE TrueDiv(i * x.den + x.num, x.den)

Less(x, y) == x.num * y.den < y.num * x.den

RECURSIVE SumOver(_, _)
SumOver(f, S) ==
    IF S = {} THEN 0
    ELSE LET x == CHOOSE x \in S : TRUE IN f[x] + SumOver(f, S \ {x})

RECURSIVE SetToSeq(_)
SetToSeq(S) ==
    IF S = {} THEN <<>>
    ELSE LET x == CHOOSE x \in S : TRUE IN <<x>> \o SetToSeq(S \ {x})

RECURSIVE Flatten(_)
Flatten(ss) == IF ss = <<>> THEN <<>> ELSE Head(ss) \o Flatten(Tail(ss))

Range(s) == {s[i] : i \in DOMAIN s}

(***************************************************************************)
(* DataFrames.                                                             *)
(***************************************************************************)
EmptyDataFrame == [columns |-> <<>>, rows |-> <<>>]

\* DataFrame.empty: some axis has length 0
empty(df) == Len(df.rows) = 0 \/ Len(df.columns) = 0

\* the columns of a prediction record that the scorer reads, in the
\* predictor's order
PredictionColumns ==
    <<"coin_name", "combined_gain_percent", "current_price", "combined_prediction">>

\* the columns of the table run_sentiment_analysis_flow returns
SentimentColumns == <<"coin_name", "label">>

OutputColumns ==
    <<"Coin Name", "Current Price", "Estimated Price", "Combined Gain %",
      "Prediction Score", "Sentiment Score", "Total Score">>

(***************************************************************************)
(* scorer.py run_scoring_flow, step by step.                               *)
(***************************************************************************)
\* 1. sentiments_df['coin_name'] = sentiments_df['coin_name'].apply(...)
StandardizeNames(df) ==
    [df EXCEPT !.rows =
        [i \in DOMAIN df.rows |->
            [df.rows[i] EXCEPT !.coin_name = standardize_name(@)]]]

\* 2. groupby('coin_name')['label'].value_counts().unstack(fill_value=0),
\*    with the 'positive' column added when no row has that label
sentiment_counts(df) ==
    LET rows    == df.rows
        names   == {rows[i].coin_name : i \in DOMAIN rows}
        columns == {rows[i].label : i \in DOMAIN rows} \cup {"positive"}
    IN  [c \in names |->
            [l \in columns |->
                Cardinality({i \in DOMAIN rows :
                                rows[i].coin_name = c /\ rows[i].label = l})]]

\* one row of sentiment_counts: total = sum over every label column, then
\* positive / total if total > 0 else 0
sentiment_score(row) ==
    LET total == SumOver(row, DOMAIN row)
    IN  IF total > 0 THEN TrueDiv(row["positive"], total) ELSE Zero

\* sentiment_scores_df, as the set of its rows (one per group key)
sentiment_scores_df(df) ==
    IF empty(df) THEN {}
    ELSE LET counts == sentiment_counts(df)
         IN  {[coin_name |-> c, sentiment_score |-> sentiment_score(counts[c])] :
                 c \in DOMAIN counts}

\* 3. predictions_df['prediction_score'] = ...apply(_calculate_prediction_score)
WithPredictionScore(df) ==
    [columns |-> IF "prediction_score" \in Range(df.columns) THEN df.columns
                 ELSE Append(df.columns, "prediction_score"),
     rows    |-> [i \in DOMAIN df.rows |->
                    [f \in DOMAIN df.rows[i] \cup {"prediction_score"} |->
                        IF f = "prediction_score"
                        THEN _calculate_prediction_score(
                                 df.rows[i].combined_gain_percent)
                        ELSE df.rows[i][f]]]]

\* how='outer' in place of how='left': a row for every sentiment symbol
\* without a prediction, its missing prediction score read as 0
MutMergeOuter(left, right) ==
    Flatten([i \in DOMAIN left |->
        LET matches == {r \in right : r.coin_name = left[i].coin_name}
        IN  IF matches = {}
            THEN <<left[i] @@ [sentiment_score |-> NaN]>>
            ELSE SetToSeq({left[i] @@ [sentiment_score |-> r.sentiment_score] :
                              r \in matches})])
    \o SetToSeq({[coin_name |-> r.coin_name, combined_gain_percent |-> NaN,
                  current_price |-> NaN, combined_prediction |-> NaN,
                  prediction_score |-> 0,
                  sentiment_score |-> r.sentiment_score] :
                    r \in {m \in right :
                              \A i \in DOMAIN left : left[i].coin_name # m.coin_name}})

\* how='inner' in place of how='left'
MutMergeInner(left, right) ==
    Flatten([i \in DOMAIN left |->
        SetToSeq({left[i] @@ [sentiment_score |-> r.sentiment_score] :
                     r \in {m \in right : m.coin_name = left[i].coin_name}})])

\* 4. pd.merge(predictions_df, sentiment_scores_df, on='coin_name', how='left')
merge(left, right) ==
    Flatten([i \in DOMAIN left |->
        LET matches == {r \in right : r.coin_name = left[i].coin_name}
        IN  IF matches = {}
            THEN <<left[i] @@ [sentiment_score |-> NaN]>>
            ELSE SetToSeq({left[i] @@ [sentiment_score |-> r.sentiment_score] :
                              r \in matches})])

\* a fillna whose result is dropped
MutFillnaDropped(rows) == rows

\*    final_df['sentiment_score'].fillna(0, inplace=True)
fillna(rows) ==
    [i \in DOMAIN rows |->
        IF rows[i].sentiment_score = NaN
        THEN [rows[i] EXCEPT !.sentiment_score = Zero]
        ELSE rows[i]]

\* the sentiment score left out of the total
MutTotalWithoutSentiment(row) == Plus(row.prediction_score, Zero)

\* 5. final_df['total_score'] = prediction_score + sentiment_score
total_score(row) == Plus(row.prediction_score, row.sentiment_score)

\* 6. column selection and renaming
OutputRow(row) ==
    ("Coin Name" :> row.coin_name) @@
    ("Current Price" :> row.current_price) @@
    ("Estimated Price" :> row.combined_prediction) @@
    ("Combined Gain %" :> row.combined_gain_percent) @@
    ("Prediction Score" :> row.prediction_score) @@
    ("Sentiment Score" :> row.sentiment_score) @@
    ("Total Score" :> total_score(row))

\* 7. sort_values(by='Total Score', ascending=False).reset_index(drop=True).
\*    The default kind is 'quicksort', which is not stable: the result is
\*    some permutation in non-increasing key order (NaN keys last), and
\*    which one among equal keys depends on the numpy build.
Before(x, y) ==
    IF x = NaN THEN FALSE ELSE IF y = NaN THEN TRUE ELSE Less(y, x)

\* ascending=False forgotten
MutSortAscending(rows) ==
    LET n     == Len(rows)
        perms == {f \in [1..n -> 1..n] : \A i, j \in 1..n : i # j => f[i] # f[j]}
        asc   == {f \in perms : \A i, j \in 1..n :
                     i < j => ~Before(rows[f[i]]["Total Score"],
                                      rows[f[j]]["Total Score"])}
    IN  {[i \in 1..n |-> rows[f[i]]] : f \in asc}

sort_values(rows) ==
    LET n     == Len(rows)
        perms == {f \in [1..n -> 1..n] : \A i, j \in 1..n : i # j => f[i] # f[j]}
        desc  == {f \in perms : \A i, j \in 1..n :
                     i < j => ~Before(rows[f[j]]["Total Score"],
                                      rows[f[i]]["Total Score"])}
    IN  {[i \in 1..n |-> rows[f[i]]] : f \in desc}

\* The whole call: the set of its possible outcomes.  A table without the
\* column 'combined_gain_percent' raises KeyError at step 3, after step 1
\* has already rewritten the caller's sentiment table.
run_scoring_flow(p_df, s_df) ==
    LET s1     == IF ~empty(s_df) THEN StandardizeNames(s_df) ELSE s_df
        scores == sentiment_scores_df(s1)
    IN  IF "combined_gain_percent" \notin Range(p_df.columns)
        THEN {[raised |-> TRUE, predictions_df |-> p_df, sentiments_df |-> s1,
               output_df |-> None]}
        ELSE LET p1    == WithPredictionScore(p_df)
                 final == fillna(merge(p1.rows, scores))
                 out   == [i \in DOMAIN final |-> OutputRow(final[i])]
             IN  {[raised |-> FALSE, predictions_df |-> p1, sentiments_df |-> s1,
                   output_df |-> [columns |-> OutputColumns, rows |-> sorted]] :
                     sorted \in sort_values(out)}

(***************************************************************************)
(* The inputs the model draws from.                                        *)
(***************************************************************************)
sui  == <<"s", "u", "i">>
Pepe == <<"P", "e", "p", "e">>

\* coin names of prediction records (symbols with '-USD' removed)
PredictionNames == {SUI20947, TON11419}
\* combined gain percentages, in hundredths: -0.01 and 8.00
GainPercents == {-1, 800}
\* source names of sentiment records
SourceNames == {sui, SUI, TONCOIN, Pepe}
\* what get_sentiment returns
Labels == {"positive", "negative", "neutral", "error"}
\* the labels the general specification draws from
DrawnLabels == {"positive", "negative", "error"}

PredictionRecord(coin, current, gain) ==
    [coin_name |-> coin, combined_gain_percent |-> gain,
     current_price |-> current,
     combined_prediction |-> current + (current * gain) \div 10000]

\* the end-to-end scenario of scorer.py's self-test comments
ScenarioPredictions ==
    << [coin_name |-> BTC, combined_gain_percent |-> 500,
        current_price |-> 6000000, combined_prediction |-> 6300000],
       [coin_name |-> ETH, combined_gain_percent |-> 1000,
        current_price |-> 300000, combined_prediction |-> 330000],
       [coin_name |-> XRP, combined_gain_percent |-> -200,
        current_price |-> 50, combined_prediction |-> 49] >>

ScenarioSources == <<BITCOIN, BITCOIN, BITCOIN, ETHEREUM, ETHEREUM>>

(***************************************************************************)
(* The state machine.                                                      *)
(***************************************************************************)
Init ==
    /\ pc = "build"
    /\ predictions_df \in
          {EmptyDataFrame, [columns |-> PredictionColumns, rows |-> <<>>]}
    /\ sentiments_df \in {None, EmptyDataFrame}
    /\ output_df = None
    /\ predictions_in = None
    /\ sentiments_in = None
    /\ arg = 0
    /\ ret = NoValue
    /\ NoPredictor
    /\ sentiment = NoSentiment

AppendRow(df, columns, row) ==
    [columns |-> columns,
     rows    |-> IF df = None THEN <<row>> ELSE Append(df.rows, row)]

\* predict_all_cryptos: self.results.append(result); the table handed on is
\* pd.DataFrame(self.results)
AddPrediction ==
    /\ pc = "build"
    /\ Len(predictions_df.rows) < MaxPred
    /\ \E coin \in PredictionNames, gain \in GainPercents :
          predictions_df' =
              AppendRow(predictions_df, PredictionColumns,
                        PredictionRecord(coin, 10000, gain))
    /\ UNCHANGED <<pc, sentiments_df, output_df, predictions_in,
                   sentiments_in, arg, ret>>
    /\ UNCHANGED predictor_vars
    /\ UNCHANGED sentiment

\* run_sentiment_analysis_flow: one label per article, whatever
\* get_sentiment returned for it
AddSentiment ==
    /\ pc = "build"
    /\ IF sentiments_df = None THEN TRUE
       ELSE Len(sentiments_df.rows) < MaxSent
    /\ \E name \in SourceNames, label \in DrawnLabels :
          sentiments_df' =
              AppendRow(sentiments_df, SentimentColumns,
                        [coin_name |-> name, label |-> label])
    /\ UNCHANGED <<pc, predictions_df, output_df, predictions_in,
                   sentiments_in, arg, ret>>
    /\ UNCHANGED predictor_vars
    /\ UNCHANGED sentiment

\* a direct call run_scoring_flow(predictions, sentiments), as in the
\* self-test of scorer.py
RunScoringFlow ==
    /\ pc = "build"
    /\ sentiments_df # None
    /\ \E out \in run_scoring_flow(predictions_df, sentiments_df) :
          /\ pc' = IF out.raised THEN "raised" ELSE "returned"
          /\ predictions_df' = out.predictions_df
          /\ sentiments_df' = out.sentiments_df
          /\ output_df' = out.output_df
    /\ predictions_in' = predictions_df
    /\ sentiments_in' = sentiments_df
    /\ UNCHANGED <<arg, ret>>
    /\ UNCHANGED predictor_vars
    /\ UNCHANGED sentiment

\* the node without its test for missing or empty predictions
MutScoringNodeNoSkip ==
    /\ pc = "build"
    /\ LET sentiments == IF sentiments_df = None THEN EmptyDataFrame
                         ELSE sentiments_df
       IN  /\ \E out \in run_scoring_flow(predictions_df, sentiments) :
                 /\ pc' = IF out.raised THEN "raised" ELSE "returned"
                 /\ predictions_df' = out.predictions_df
                 /\ sentiments_df' = IF sentiments_df = None THEN None
                                     ELSE out.sentiments_df
                 /\ output_df' = out.output_df
           /\ predictions_in' = predictions_df
           /\ sentiments_in' = sentiments

\* PipelineAgent.run_scoring_node
run_scoring_node ==
    /\ pc = "build"
    /\ IF (IF predictions_df = None THEN TRUE ELSE empty(predictions_df))
       THEN /\ pc' = "skipped"
            /\ output_df' = EmptyDataFrame
            /\ UNCHANGED <<predictions_df, sentiments_df, predictions_in,
                           sentiments_in>>
       ELSE LET sentiments == IF sentiments_df = None THEN EmptyDataFrame
                              ELSE sentiments_df
            IN  /\ \E out \in run_scoring_flow(predictions_df, sentiments) :
                      /\ pc' = IF out.raised THEN "raised" ELSE "returned"
                      /\ predictions_df' = out.predictions_df
                      /\ sentiments_df' = IF sentiments_df = None THEN None
                                          ELSE out.sentiments_df
                      /\ output_df' = out.output_df
                /\ predictions_in' = predictions_df
                /\ sentiments_in' = sentiments

\* the scoring node run on tables built by hand
RunScoringNode ==
    /\ run_scoring_node
    /\ UNCHANGED <<arg, ret>>
    /\ UNCHANGED predictor_vars
    /\ UNCHANGED sentiment

Next == AddPrediction \/ AddSentiment \/ RunScoringFlow \/ RunScoringNode

Spec == Init /\ [][Next]_vars

(***************************************************************************)
(* The end-to-end scenario: the tables grow along the scenario's rows,     *)
(* each article with whatever label the classifier gave it.                *)
(***************************************************************************)
AddScenarioPrediction ==
    /\ pc = "build"
    /\ Len(predictions_df.rows) < Len(ScenarioPredictions)
    /\ predictions_df' =
          AppendRow(predictions_df, PredictionColumns,
                    ScenarioPredictions[Len(predictions_df.rows) + 1])
    /\ UNCHANGED <<pc, sentiments_df, output_df, predictions_in,
                   sentiments_in, arg, ret>>
    /\ UNCHANGED predictor_vars
    /\ UNCHANGED sentiment

AddScenarioSentiment ==
    /\ pc = "build"
    /\ sentiments_df # None
    /\ Len(sentiments_df.rows) < Len(ScenarioSources)
    /\ \E label \in Labels :
          sentiments_df' =
              AppendRow(sentiments_df, SentimentColumns,
                        [coin_name |-> ScenarioSources[Len(sentiments_df.rows) + 1],
                         label |-> label])
    /\ UNCHANGED <<pc, predictions_df, output_df, predictions_in,
                   sentiments_in, arg, ret>>
    /\ UNCHANGED predictor_vars
    /\ UNCHANGED sentiment

InitScenario ==
    /\ Init
    /\ predictions_df = EmptyDataFrame
    /\ sentiments_df = EmptyDataFrame

NextScenario == AddScenarioPrediction \/ AddScenarioSentiment \/ RunScoringFlow

SpecScenario == InitScenario /\ [][NextScenario]_vars

(***************************************************************************)
(* The tier score as a pure function of the gain percentage.               *)
(***************************************************************************)
InitTier ==
    /\ pc = "build"
    /\ predictions_df = EmptyDataFrame
    /\ sentiments_df = EmptyDataFrame
    /\ output_df = None
    /\ predictions_in = None
    /\ sentiments_in = None
    /\ arg \in -MaxGain .. MaxGain
    /\ ret = NoValue
    /\ NoPredictor
    /\ sentiment = NoSentiment

CalculatePredictionScore ==
    /\ ret = NoValue
    /\ ret' = <<_calculate_prediction_score(arg)>>
    /\ UNCHANGED <<pc, predictions_df, sentiments_df, output_df,
                   predictions_in, sentiments_in, arg>>
    /\ UNCHANGED predictor_vars
    /\ UNCHANGED sentiment

SpecTier == InitTier /\ [][CalculatePredictionScore]_vars

(***************************************************************************)
(* The name mapping as a pure function: applied to a source name, and      *)
(* applied again to its own result (a second run_scoring_flow on the same  *)
(* sentiment table maps the already mapped column again).                  *)
(***************************************************************************)
NameAlphabet == {"s", "u", "i", "S", "U", "I", "a", "d", "A", "D"}

NameInputs ==
    UNION {[1..n -> NameAlphabet] : n \in 0..MaxNameLen}
      \cup DOMAIN name_to_symbol_map
      \cup {name_to_symbol_map[k] : k \in DOMAIN name_to_symbol_map}
      \cup {sui, Pepe, <<"t", "o", "n", "c", "o", "i", "n">>,
            <<"B", "i", "t", "c", "o", "i", "n">>}

InitName ==
    /\ pc = "build"
    /\ predictions_df = EmptyDataFrame
    /\ sentiments_df = EmptyDataFrame
    /\ output_df = None
    /\ predictions_in = None
    /\ sentiments_in = None
    /\ arg \in NameInputs
    /\ ret = NoValue
    /\ NoPredictor
    /\ sentiment = NoSentiment

StandardizeName ==
    /\ ret = NoValue
    /\ ret' = <<standardize_name(arg)>>
    /\ UNCHANGED <<pc, predictions_df, sentiments_df, output_df,
                   predictions_in, sentiments_in, arg>>
    /\ UNCHANGED predictor_vars
    /\ UNCHANGED sentiment

StandardizeAgain ==
    /\ Len(ret) = 1
    /\ ret' = Append(ret, standardize_name(ret[1]))
    /\ UNCHANGED <<pc, predictions_df, sentiments_df, output_df,
                   predictions_in, sentiments_in, arg>>
    /\ UNCHANGED predictor_vars
    /\ UNCHANGED sentiment

NextName == StandardizeName \/ StandardizeAgain

SpecName == InitName /\ [][NextName]_vars

(***************************************************************************)
(* CryptoPricePredictor.predict_single_crypto.  Prices are integer         *)
(* thousandths, the stored fields integer hundredths, so round(., 2) does  *)
(* something.  What the libraries hand back (the download, the length of   *)
(* the series, its last close, the two forecasts) is the environment of    *)
(* the call.                                                               *)
(***************************************************************************)
MinPoints == 30
ForecastSteps == 15
DefaultPredictDays == 5

USD_SUFFIX == <<"-", "U", "S", "D">>

\* str.replace(old, ''): every non-overlapping occurrence, left to right
RECURSIVE replace(_, _)
replace(s, old) ==
    IF Len(s) < Len(old) THEN s
    ELSE IF SubSeq(s, 1, Len(old)) = old
         THEN replace(SubSeq(s, Len(old) + 1, Len(s)), old)
         ELSE <<Head(s)>> \o replace(Tail(s), old)

coin_name(symbol) == upper(replace(symbol, USD_SUFFIX))

\* round(num / den, 2) in hundredths, den > 0.  On an exact tie the binary
\* float lies on either side of it, so both neighbours are outcomes.
Round2(num, den) ==
    LET lo  == (100 * num) \div den
        rem == 100 * num - lo * den
    IN  IF 2 * rem < den THEN {lo}
        ELSE IF 2 * rem > den THEN {lo + 1}
        ELSE {lo, lo + 1}

\* the mean taken with the ARIMA forecast alone
MutCombinedArimaOnly(arima, xgb) == [num |-> arima, den |-> 1]

\* (arima_price_prediction + xgb_price_prediction) / 2
combined_price_prediction(arima, xgb) == [num |-> arima + xgb, den |-> 2]

\* the gain taken relative to the forecast
MutGainOverForecast(forecast, current) ==
    IF forecast.num = 0 THEN {0}
    ELSE Round2(100 * (forecast.num - forecast.den * current), forecast.num)

\* round(((forecast - current_price) / current_price) * 100, 2), current > 0
gain_percent(forecast, current) ==
    Round2(100 * (forecast.num - forecast.den * current), forecast.den * current)

\* the handler hands back a record of zeros
MutSkipGivesRecord(line) ==
    [result |-> [coin_name |-> <<>>, arima_gain_percent |-> 0,
                 xgboost_gain_percent |-> 0, combined_gain_percent |-> 0,
                 current_price |-> 0, arima_prediction |-> 0,
                 xgboost_prediction |-> 0, combined_prediction |-> 0],
     printed |-> line]

Completed(result) == [result |-> result, printed |-> "analysis completed"]
Skipped(line) == [result |-> None, printed |-> line]

\* the skip taken for series of at most MinPoints points
MutSkipAtThirty(points) == points <= MinPoints

insufficient(points) == points < MinPoints

predict_single_crypto(self, symbol, env) ==
    IF env.failure = "download" THEN {Skipped("Error analyzing")}
    ELSE IF insufficient(env.points) THEN {Skipped("Insufficient data")}
    ELSE IF env.failure = "model" THEN {Skipped("Error analyzing")}
    \* arima_future_forecast.values[self.predict_days]: IndexError
    ELSE IF self.predict_days >= ForecastSteps THEN {Skipped("Error analyzing")}
    \* division of Python floats by current_price = 0.0: ZeroDivisionError
    ELSE IF env.close = 0 THEN {Skipped("Error analyzing")}
    ELSE LET arima    == [num |-> env.arima, den |-> 1]
             xgb      == [num |-> env.xgb, den |-> 1]
             combined == combined_price_prediction(env.arima, env.xgb)
         IN  {Completed([coin_name              |-> coin_name(symbol),
                         arima_gain_percent     |-> ag,
                         xgboost_gain_percent   |-> xg,
                         combined_gain_percent  |-> cg,
                         current_price          |-> cp,
                         arima_prediction       |-> ap,
                         xgboost_prediction     |-> xp,
                         combined_prediction    |-> cb]) :
                 ag \in gain_percent(arima, env.close),
                 xg \in gain_percent(xgb, env.close),
                 cg \in gain_percent(combined, env.close),
                 cp \in Round2(env.close, 1000),
                 ap \in Round2(env.arima, 1000),
                 xp \in Round2(env.xgb, 1000),
                 cb \in Round2(combined.num, 1000 * combined.den)}

BTC_USD == <<"B", "T", "C", "-", "U", "S", "D">>
btc_usd == <<"b", "t", "c", "-", "u", "s", "d">>
SUI20947_USD == <<"S", "U", "I", "2", "0", "9", "4", "7", "-", "U", "S", "D">>
BTC_USDT == <<"B", "T", "C", "-", "U", "S", "D", "T">>
US_USDD == <<"-", "U", "S", "-", "U", "S", "D", "D">>

Symbols == {BTC_USD, btc_usd, SUI20947_USD, BTC_USDT, US_USDD, BTC}

\* multiples of PriceStep, and one price under half a hundredth
RawPrices == {PriceStep * k : k \in 0..MaxRaw} \cup {PriceStep \div 2}

Environments ==
    [failure : {"none", "download", "model"},
     points  : {0, MinPoints - 1, MinPoints},
     close   : RawPrices,
     arima   : RawPrices,
     xgb     : RawPrices]

CryptoPricePredictor(symbols, predict_days) ==
    [predict_days |-> predict_days, symbols |-> symbols, results |-> <<>>]

InitSingle ==
    /\ pc = "build"
    /\ predictions_df = EmptyDataFrame
    /\ sentiments_df = EmptyDataFrame
    /\ output_df = None
    /\ predictions_in = None
    /\ sentiments_in = None
    /\ arg \in [symbol : Symbols, env : Environments]
    /\ ret = NoValue
    /\ \E d \in {DefaultPredictDays, ForecastSteps} :
          predictor = CryptoPricePredictor(<<arg.symbol>>, d)
    /\ batch = NoBatch
    /\ node = "none"
    /\ sentiment = NoSentiment

PredictSingleCrypto ==
    /\ ret = NoValue
    /\ \E out \in predict_single_crypto(predictor, arg.symbol, arg.env) :
          ret' = <<out>>
    /\ UNCHANGED <<pc, predictions_df, sentiments_df, output_df,
                   predictions_in, sentiments_in, arg>>
    /\ UNCHANGED predictor_vars
    /\ UNCHANGED sentiment

SpecSingle == InitSingle /\ [][PredictSingleCrypto]_vars

(***************************************************************************)
(* CryptoPricePredictor.predict_all_cryptos, one symbol at a step.  batch  *)
(* is the invocation in progress: how many there have been, the position   *)
(* of the loop (0 outside a call), the length of self.results when the     *)
(* call began, and what each symbol of this call gave.                     *)
(***************************************************************************)
ResultColumns ==
    <<"coin_name", "arima_gain_percent", "xgboost_gain_percent",
      "combined_gain_percent", "current_price", "arima_prediction",
      "xgboost_prediction", "combined_prediction">>

get_results_dataframe(self) ==
    IF self.results # <<>>
    THEN [columns |-> ResultColumns, rows |-> self.results]
    ELSE EmptyDataFrame

\* if result: None is falsy, a dict of eight keys is truthy
truthy(result) == result # None

\* the loop left at the first symbol that gives no record
MutAbortOnFailure(self, i, result) ==
    IF result = None THEN Len(self.symbols) + 1 ELSE i + 1

\* for symbol in self.symbols: on to the next one, whatever the result
next_symbol(self, i, result) == i + 1

\* the loop left after its first symbol
MutDoneAfterFirst(self, i) == i > 1 \/ i > Len(self.symbols)

loop_done(self, i) == i > Len(self.symbols)

BatchSymbols == {BTC_USD, btc_usd}

SymbolLists == UNION {[1..n -> BatchSymbols] : n \in 0..MaxSymbols}

\* a failing download, a short series, a failing model, a completed run
BatchEnvironments ==
    {[failure |-> "download", points |-> 0, close |-> 0, arima |-> 0, xgb |-> 0],
     [failure |-> "none", points |-> MinPoints - 1, close |-> PriceStep,
      arima |-> PriceStep, xgb |-> PriceStep],
     [failure |-> "model", points |-> MinPoints, close |-> PriceStep,
      arima |-> 0, xgb |-> 0],
     [failure |-> "none", points |-> MinPoints, close |-> PriceStep,
      arima |-> 2 * PriceStep, xgb |-> PriceStep]}

InitBatch ==
    /\ pc = "build"
    /\ predictions_df = EmptyDataFrame
    /\ sentiments_df = EmptyDataFrame
    /\ output_df = None
    /\ predictions_in = None
    /\ sentiments_in = None
    /\ arg = 0
    /\ ret = NoValue
    /\ \E symbols \in SymbolLists :
          predictor = CryptoPricePredictor(symbols, DefaultPredictDays)
    /\ batch = NoBatch
    /\ node = "none"
    /\ sentiment = NoSentiment

PredictAllCryptos ==
    /\ predictor # None
    /\ batch.i = 0
    /\ batch.calls < MaxCalls
    /\ batch' = [calls |-> batch.calls + 1, i |-> 1,
                 first |-> Len(predictor.results), log |-> <<>>]
    /\ UNCHANGED <<pc, predictions_df, sentiments_df, output_df,
                   predictions_in, sentiments_in, arg, ret, predictor, node>>
    /\ UNCHANGED sentiment

PredictNextSymbol ==
    /\ batch.i >= 1
    /\ ~loop_done(predictor, batch.i)
    /\ \E env \in BatchEnvironments :
          \E out \in predict_single_crypto(predictor, predictor.symbols[batch.i], env) :
              /\ predictor' =
                    [predictor EXCEPT !.results =
                        IF truthy(out.result) THEN Append(@, out.result) ELSE @]
              /\ batch' =
                    [batch EXCEPT
                        !.i = next_symbol(predictor, batch.i, out.result),
                        !.log = Append(@, [symbol  |-> predictor.symbols[batch.i],
                                           env     |-> env,
                                           result  |-> out.result,
                                           printed |-> out.printed])]
    /\ UNCHANGED <<pc, predictions_df, sentiments_df, output_df,
                   predictions_in, sentiments_in, arg, ret, node>>
    /\ UNCHANGED sentiment

PredictAllCryptosReturn ==
    /\ node = "none"
    /\ batch.i >= 1
    /\ loop_done(predictor, batch.i)
    /\ batch' = [batch EXCEPT !.i = 0]
    /\ UNCHANGED <<pc, predictions_df, sentiments_df, output_df,
                   predictions_in, sentiments_in, arg, ret, predictor, node>>
    /\ UNCHANGED sentiment

NextBatch == PredictAllCryptos \/ PredictNextSymbol \/ PredictAllCryptosReturn

SpecBatch == InitBatch /\ [][NextBatch]_vars

(***************************************************************************)
(* PipelineAgent.run: the graph of _build_graph, node by node.  arg holds  *)
(* the symbols handed to run and the two keys of the PipelineState that no *)
(* other variable holds, as the number of URLs and of scraped articles (an *)
(* unset key and an empty list or table take the same branch).             *)
(***************************************************************************)
entry_point == "predict"

edges ==
    ("predict" :> "get_news") @@ ("get_news" :> "scrape") @@
    ("scrape" :> "analyze") @@ ("analyze" :> "score") @@ ("score" :> "END")

PipelineSources == {sui, Pepe}
PipelineLabels == {"positive", "error"}

InitPipeline ==
    /\ pc = "build"
    /\ predictions_df = None
    /\ sentiments_df = None
    /\ output_df = None
    /\ predictions_in = None
    /\ sentiments_in = None
    /\ \E symbols \in SymbolLists :
          arg = [symbols |-> symbols, news_urls |-> 0, scraped_news |-> 0]
    /\ ret = NoValue
    /\ predictor = None
    /\ batch = NoBatch
    /\ node = entry_point
    /\ sentiment = NoSentiment

\* run_prediction_flow(symbols): a predictor of its own for the symbols of
\* the run, and its predict_all_cryptos entered
run_prediction_flow_begin(symbols) ==
    /\ predictor' = CryptoPricePredictor(symbols, DefaultPredictDays)
    /\ batch' = [calls |-> 1, i |-> 1, first |-> 0, log |-> <<>>]

\* run_prediction_flow returns the table of the gathered records
run_prediction_flow_return == get_results_dataframe(predictor)

RunPredictionNode ==
    /\ node = "predict"
    /\ predictor = None
    /\ run_prediction_flow_begin(arg.symbols)
    /\ UNCHANGED <<pc, predictions_df, sentiments_df, output_df,
                   predictions_in, sentiments_in, arg, ret, node>>
    /\ UNCHANGED sentiment

RunPredictionNodeReturn ==
    /\ node = "predict"
    /\ batch.i >= 1
    /\ loop_done(predictor, batch.i)
    /\ predictions_df' = run_prediction_flow_return
    /\ batch' = [batch EXCEPT !.i = 0]
    /\ node' = edges[node]
    /\ UNCHANGED <<pc, sentiments_df, output_df, predictions_in,
                   sentiments_in, arg, ret, predictor>>
    /\ UNCHANGED sentiment

GetNewsUrlsNode ==
    /\ node = "get_news"
    /\ \E urls \in 0..MaxSent : arg' = [arg EXCEPT !.news_urls = urls]
    /\ node' = edges[node]
    /\ UNCHANGED <<pc, predictions_df, sentiments_df, output_df,
                   predictions_in, sentiments_in, ret>>
    /\ UNCHANGED <<predictor, batch>>
    /\ UNCHANGED sentiment

RunScrapingNode ==
    /\ node = "scrape"
    /\ IF arg.news_urls = 0
       THEN arg' = [arg EXCEPT !.scraped_news = 0]
       ELSE \E scraped \in 0..arg.news_urls :
               arg' = [arg EXCEPT !.scraped_news = scraped]
    /\ node' = edges[node]
    /\ UNCHANGED <<pc, predictions_df, sentiments_df, output_df,
                   predictions_in, sentiments_in, ret>>
    /\ UNCHANGED <<predictor, batch>>
    /\ UNCHANGED sentiment

RunSentimentAnalysisNode ==
    /\ node = "analyze"
    /\ IF arg.scraped_news = 0
       THEN sentiments_df' = EmptyDataFrame
       ELSE \E rows \in [1..arg.scraped_news ->
                            [coin_name : PipelineSources, label : PipelineLabels]] :
               sentiments_df' = [columns |-> SentimentColumns, rows |-> rows]
    /\ node' = edges[node]
    /\ UNCHANGED <<pc, predictions_df, output_df, predictions_in,
                   sentiments_in, arg, ret>>
    /\ UNCHANGED <<predictor, batch>>
    /\ UNCHANGED sentiment

PipelineScoringNode ==
    /\ node = "score"
    /\ run_scoring_node
    /\ node' = edges[node]
    /\ UNCHANGED <<arg, ret, predictor, batch>>
    /\ UNCHANGED sentiment

NextPipeline ==
    \/ RunPredictionNode
    \/ PredictNextSymbol
    \/ RunPredictionNodeReturn
    \/ GetNewsUrlsNode
    \/ RunScrapingNode
    \/ RunSentimentAnalysisNode
    \/ PipelineScoringNode

SpecPipeline == InitPipeline /\ [][NextPipeline]_vars

(***************************************************************************)
(* CryptoPricePredictor.find_best_arima_order.  What fitting one order on  *)
(* the train segment and scoring its forecast on the test segment gives    *)
(* (an exception, or a finite mean squared error) is the environment: the  *)
(* same data give the same outcome for an order.                           *)
(***************************************************************************)
PStop == 4
DStop == 2
QStop == 4

\* range(0, stop) as a sequence
range(stop) == [i \in 1..stop |-> i - 1]

p_values == range(PStop)
d_values == range(DStop)
q_values == range(QStop)

\* itertools.product: the last factor varies fastest
product(ps, ds, qs) ==
    Flatten([i \in 1..Len(ps) |->
        Flatten([j \in 1..Len(ds) |->
            [k \in 1..Len(qs) |-> <<ps[i], ds[j], qs[k]>>]])])

\* float('inf') and a finite float, and Python's < between them
Inf == [inf |-> TRUE, v |-> 0]
Finite(v) == [inf |-> FALSE, v |-> v]
MseLess(a, b) == ~a.inf /\ (b.inf \/ a.v < b.v)

\* a failed fit is scored 0
MutFailedFitScoresZero(fit, arima_order) ==
    IF fit.converged
    THEN [arima_order |-> arima_order, mse |-> Finite(fit.mse),
          model_fit |-> [order |-> arima_order]]
    ELSE [arima_order |-> arima_order, mse |-> Finite(0), model_fit |-> None]

\* one entry of results: (arima_order, mse, model_fit)
evaluate_arima_model(fit, arima_order) ==
    IF fit.converged
    THEN [arima_order |-> arima_order, mse |-> Finite(fit.mse),
          model_fit |-> [order |-> arima_order]]
    ELSE [arima_order |-> arima_order, mse |-> Inf, model_fit |-> None]

\* min(results, key=lambda x: x[1]): the scan keeps the entry it holds
\* unless the next one is strictly smaller
RECURSIVE MinScan(_, _, _)
MinScan(results, i, best) ==
    IF i > Len(results) THEN best
    ELSE MinScan(results, i + 1,
                 IF MseLess(results[i].mse, results[best].mse) THEN i ELSE best)

\* the scan replaces the entry it holds by an equal one
RECURSIVE MutScanLast(_, _, _)
MutScanLast(results, i, best) ==
    IF i > Len(results) THEN best
    ELSE MutScanLast(results, i + 1,
                     IF MseLess(results[best].mse, results[i].mse) THEN best ELSE i)

MutMinLastOnTies(results) == {results[MutScanLast(results, 2, 1)]}

\* any entry of minimal MSE
MutMinAnyOnTies(results) ==
    {results[b] : b \in {i \in DOMAIN results :
                            \A j \in DOMAIN results :
                                ~MseLess(results[j].mse, results[i].mse)}}

\* the entries min can return
min_by_mse(results) == {results[MinScan(results, 2, 1)]}

find_best_arima_order(fits) ==
    LET grid    == product(p_values, d_values, q_values)
        results == [i \in 1..Len(grid) |-> evaluate_arima_model(fits[grid[i]], grid[i])]
    IN  {[results |-> results, best |-> best] : best \in min_by_mse(results)}

Orders == {<<p, d, q>> : p \in 0..(PStop - 1), d \in 0..(DStop - 1), q \in 0..(QStop - 1)}

FitOutcomes ==
    {[converged |-> FALSE, mse |-> 0]}
        \cup {[converged |-> TRUE, mse |-> v] : v \in 0..MaxMse}

\* every order with one outcome, but for two orders with outcomes of their own
FitTables ==
    {[o \in Orders |-> IF o = o1 THEN f1 ELSE IF o = o2 THEN f2 ELSE rest] :
        o1 \in Orders, o2 \in Orders,
        f1 \in FitOutcomes, f2 \in FitOutcomes, rest \in FitOutcomes}

InitArima ==
    /\ pc = "build"
    /\ predictions_df = EmptyDataFrame
    /\ sentiments_df = EmptyDataFrame
    /\ output_df = None
    /\ predictions_in = None
    /\ sentiments_in = None
    /\ arg \in FitTables
    /\ ret = NoValue
    /\ NoPredictor
    /\ sentiment = NoSentiment

FindBestArimaOrder ==
    /\ ret = NoValue
    /\ \E out \in find_best_arima_order(arg) : ret' = <<out>>
    /\ UNCHANGED <<pc, predictions_df, sentiments_df, output_df,
                   predictions_in, sentiments_in, arg>>
    /\ UNCHANGED predictor_vars
    /\ UNCHANGED sentiment

\* the search run once more on the same data
FindBestArimaOrderAgain ==
    /\ Len(ret) = 1
    /\ \E out \in find_best_arima_order(arg) : ret' = Append(ret, out)
    /\ UNCHANGED <<pc, predictions_df, sentiments_df, output_df,
                   predictions_in, sentiments_in, arg>>
    /\ UNCHANGED predictor_vars
    /\ UNCHANGED sentiment

NextArima == FindBestArimaOrder \/ FindBestArimaOrderAgain

SpecArima == InitArima /\ [][NextArima]_vars

(***************************************************************************)
(* CryptoPricePredictor.create_features and the inputs of the two final    *)
(* models in predict_single_crypto.  A series is the sequence of its       *)
(* closing prices, time index i (from 0) at place i + 1.  A cell is NaN,   *)
(* Inf or Finite(v); a standard deviation is carried as its square.        *)
(***************************************************************************)
window_sizes == <<5, 10, 20>>

Max(S) == CHOOSE m \in S : \A x \in S : x <= m

Squares(prices) == [j \in DOMAIN prices |-> prices[j] * prices[j]]

\* the places of the window that ends at time index i
Window(window, i) == (i - window + 2)..(i + 1)

\* Series.rolling(window).mean(): NaN until the window is full
rolling_mean(prices, window, i) ==
    IF i + 1 < window THEN NaN
    ELSE Finite(TrueDiv(SumOver(prices, Window(window, i)), window))

\* Series.rolling(window).std(), squared: the sample variance
rolling_std(prices, window, i) ==
    IF i + 1 < window THEN NaN
    ELSE LET sum == SumOver(prices, Window(window, i))
             sq  == SumOver(Squares(prices), Window(window, i))
         IN  Finite(TrueDiv(window * sq - sum * sum, window * (window - 1)))

\* Series.shift(periods): the value periods places earlier (later when
\* periods < 0), NaN where there is none
shift(prices, periods, i) ==
    IF i - periods < 0 \/ i - periods > Len(prices) - 1 THEN NaN
    ELSE Finite(prices[i - periods + 1])

\* Series.pct_change(periods): x[i] / x[i - periods] - 1 in float arithmetic
pct_change(prices, periods, i) ==
    IF i - periods < 0 THEN NaN
    ELSE LET now  == prices[i + 1]
             then == prices[i - periods + 1]
         IN  IF then = 0
             THEN (IF now = 0 THEN NaN ELSE Inf)
             ELSE Finite(TrueDiv(now - then, then))

\* one row of df_features before dropna
FeatureRow(self, prices, windows, i) ==
    [index        |-> i,
     Close        |-> Finite(prices[i + 1]),
     rolling_mean |-> [w \in Range(windows) |-> rolling_mean(prices, w, i)],
     rolling_std  |-> [w \in Range(windows) |-> rolling_std(prices, w, i)],
     lag          |-> [k \in 1..Max(Range(windows)) |-> shift(prices, k, i)],
     momentum     |-> [w \in Range(windows) |-> pct_change(prices, w, i)],
     target       |-> shift(prices, -self.predict_days, i)]

HasNaN(row) ==
    \/ row.target = NaN
    \/ \E w \in DOMAIN row.rolling_mean : row.rolling_mean[w] = NaN
    \/ \E w \in DOMAIN row.rolling_std : row.rolling_std[w] = NaN
    \/ \E k \in DOMAIN row.lag : row.lag[k] = NaN
    \/ \E w \in DOMAIN row.momentum : row.momentum[w] = NaN

\* DataFrame.dropna(): the rows without a NaN cell (an inf is no NaN)
dropna(rows) ==
    LET Kept(row) == ~HasNaN(row) IN SelectSeq(rows, Kept)

create_features(self, prices, windows) ==
    dropna([j \in 1..Len(prices) |-> FeatureRow(self, prices, windows, j - 1)])

\* X = features_df.drop(['Close', target]); y = features_df[target]
X_of(features_df) ==
    [j \in DOMAIN features_df |->
        [index        |-> features_df[j].index,
         rolling_mean |-> features_df[j].rolling_mean,
         rolling_std  |-> features_df[j].rolling_std,
         lag          |-> features_df[j].lag,
         momentum     |-> features_df[j].momentum]]

y_of(features_df) ==
    [j \in DOMAIN features_df |->
        [index |-> features_df[j].index, target |-> features_df[j].target]]

\* arima_future_forecast.values[self.predict_days]: values[0] is the first
\* entry of the forecast, the step after the last close
arima_price_prediction(self, forecast) == forecast[self.predict_days + 1]

\* lines 163-185: the feature matrix, the set the final regression model
\* is trained on, the row it predicts from, and the forecast value read
final_model_inputs(self, prices, forecast) ==
    LET features_df == create_features(self, prices, window_sizes)
        X == X_of(features_df)
        y == y_of(features_df)
    IN  IF features_df = <<>>
        \* fitting on no rows raises; the handler returns None
        THEN [raised |-> TRUE, features_df |-> features_df, X |-> X, y |-> y,
              latest_features |-> None, arima_price_prediction |-> None]
        ELSE [raised |-> FALSE, features_df |-> features_df, X |-> X, y |-> y,
              latest_features |-> X[Len(X)],
              arima_price_prediction |-> Finite(arima_price_prediction(self, forecast))]

\* rising prices, 0 at the time indices of zeros
PriceSeries(N, zeros) ==
    [j \in 1..N |-> IF (j - 1) \in zeros THEN 0 ELSE 10 + j]

\* the forecast of the refit model: entry k is the price k steps after
\* the last close
ForecastPath == [k \in 1..ForecastSteps |-> 100 + k]

Horizons == 1..MaxHorizon \cup {DefaultPredictDays}

SeriesLengths(h) ==
    {0} \cup (Max(Range(window_sizes)) + h - 1)..(Max(Range(window_sizes)) + h + MaxFeatureRows)

InitFeatures ==
    /\ pc = "build"
    /\ predictions_df = EmptyDataFrame
    /\ sentiments_df = EmptyDataFrame
    /\ output_df = None
    /\ predictions_in = None
    /\ sentiments_in = None
    /\ \E h \in Horizons : \E N \in SeriesLengths(h) :
          \E z1 \in 0..N, z2 \in 0..N :
              /\ arg = [prices |-> PriceSeries(N, {z1, z2}), forecast |-> ForecastPath]
              /\ predictor = CryptoPricePredictor(<<BTC_USD>>, h)
    /\ ret = NoValue
    /\ batch = NoBatch
    /\ node = "none"
    /\ sentiment = NoSentiment

BuildFinalModelInputs ==
    /\ ret = NoValue
    /\ ret' = <<final_model_inputs(predictor, arg.prices, arg.forecast)>>
    /\ UNCHANGED <<pc, predictions_df, sentiments_df, output_df,
                   predictions_in, sentiments_in, arg>>
    /\ UNCHANGED predictor_vars
    /\ UNCHANGED sentiment

SpecFeatures == InitFeatures /\ [][BuildFinalModelInputs]_vars

(***************************************************************************)
(* get_sentiment, called for each article by run_sentiment_analysis_flow.  *)
(* arg is the 'content' column, ret the list of labels gathered so far.    *)
(* What the classifier does on a call (it raises, or it answers with some  *)
(* text) is the environment.                                               *)
(***************************************************************************)
Attempts == 3

Str(text) == [kind |-> "str", text |-> text]
NoneContent == [kind |-> "None", text |-> <<>>]
NaNContent == [kind |-> "nan", text |-> <<>>]

\* not content or pd.isna(content)
falsy_or_na(content) ==
    content.kind \in {"None", "nan"} \/ content.text = <<>>

Whitespace == {" ", "\n"}

\* str.strip(): leading and trailing whitespace removed
RECURSIVE lstrip(_)
lstrip(t) ==
    IF t # <<>> /\ Head(t) \in Whitespace THEN lstrip(Tail(t)) ELSE t

RECURSIVE rstrip(_)
rstrip(t) ==
    IF t # <<>> /\ t[Len(t)] \in Whitespace
    THEN rstrip(SubSeq(t, 1, Len(t) - 1)) ELSE t

strip(t) == rstrip(lstrip(t))

\* str.lower()
lower(t) ==
    [i \in DOMAIN t |->
        IF \E c \in DOMAIN ToUpper : ToUpper[c] = t[i]
        THEN CHOOSE c \in DOMAIN ToUpper : ToUpper[c] = t[i]
        ELSE t[i]]

\* the text without the lower-casing
MutLabelNotLowered(text) == strip(text)

\* label = response.text.strip().lower()
label_of(text) == lower(strip(text))

\* ['positive', 'negative', 'neutral']
valid_labels ==
    (<<"p", "o", "s", "i", "t", "i", "v", "e">> :> "positive") @@
    (<<"n", "e", "g", "a", "t", "i", "v", "e">> :> "negative") @@
    (<<"n", "e", "u", "t", "r", "a", "l">> :> "neutral")

\* the loop also goes round after an answer that is no label
MutRetryOnUnexpected(outcome) ==
    outcome.raises \/ label_of(outcome.text) \notin DOMAIN valid_labels

\* except Exception: sleep, then the next attempt
retries(outcome) == outcome.raises

Raises == [raises |-> TRUE, text |-> <<>>]
Answers(text) == [raises |-> FALSE, text |-> text]

R_positive == <<"p", "o", "s", "i", "t", "i", "v", "e">>
R_PositivePadded == <<" ", "P", "o", "s", "i", "t", "i", "v", "e", "\n">>
R_NEGATIVE == <<"N", "E", "G", "A", "T", "I", "V", "E">>
R_neutral == <<"n", "e", "u", "t", "r", "a", "l">>
R_bullish == <<"b", "u", "l", "l", "i", "s", "h">>
R_positive_dot == <<"p", "o", "s", "i", "t", "i", "v", "e", ".">>
R_empty == <<>>

ClassifierOutcomes ==
    {Raises} \cup
    {Answers(t) : t \in {R_positive, R_PositivePadded, R_NEGATIVE, R_neutral,
                         R_bullish, R_positive_dot, R_empty}}

Contents == {NoneContent, NaNContent, Str(<<>>), Str(<<"n", "e", "w", "s">>)}

ContentColumns == UNION {[1..n -> Contents] : n \in 0..MaxSent}

InitSentiment ==
    /\ pc = "build"
    /\ predictions_df = EmptyDataFrame
    /\ sentiments_df = EmptyDataFrame
    /\ output_df = None
    /\ predictions_in = None
    /\ sentiments_in = None
    /\ arg \in ContentColumns
    /\ ret = <<>>
    /\ NoPredictor
    /\ sentiment = NoSentiment

\* get_sentiment entered for the next article; no content, no call
GetSentiment ==
    /\ sentiment.pc = "idle"
    /\ Len(ret) < Len(arg)
    /\ LET content == arg[Len(ret) + 1]
       IN  sentiment' =
               IF falsy_or_na(content)
               THEN [pc |-> "returned", content |-> content, calls |-> <<>>,
                     label |-> <<"neutral">>]
               ELSE [pc |-> "entered", content |-> content, calls |-> <<>>,
                     label |-> NoValue]
    /\ UNCHANGED <<pc, predictions_df, sentiments_df, output_df,
                   predictions_in, sentiments_in, arg, ret>>
    /\ UNCHANGED predictor_vars

\* one attempt of the retry loop: model.generate_content and what follows
GenerateContent ==
    /\ sentiment.pc = "entered"
    /\ Len(sentiment.calls) < Attempts
    /\ \E outcome \in ClassifierOutcomes :
          sentiment' =
              IF retries(outcome)
              THEN [sentiment EXCEPT !.calls = Append(@, outcome)]
              ELSE [sentiment EXCEPT
                       !.calls = Append(@, outcome),
                       !.pc = "returned",
                       !.label =
                           IF label_of(outcome.text) \in DOMAIN valid_labels
                           THEN <<valid_labels[label_of(outcome.text)]>>
                           ELSE <<"error">>]
    /\ UNCHANGED <<pc, predictions_df, sentiments_df, output_df,
                   predictions_in, sentiments_in, arg, ret>>
    /\ UNCHANGED predictor_vars

\* the loop is exhausted: return "error"
GiveUp ==
    /\ sentiment.pc = "entered"
    /\ Len(sentiment.calls) >= Attempts
    /\ sentiment' = [sentiment EXCEPT !.pc = "returned", !.label = <<"error">>]
    /\ UNCHANGED <<pc, predictions_df, sentiments_df, output_df,
                   predictions_in, sentiments_in, arg, ret>>
    /\ UNCHANGED predictor_vars

\* sentiments.append(sentiment)
AppendSentiment ==
    /\ sentiment.pc = "returned"
    /\ ret' = Append(ret, sentiment.label[1])
    /\ sentiment' = [sentiment EXCEPT !.pc = "idle"]
    /\ UNCHANGED <<pc, predictions_df, sentiments_df, output_df,
                   predictions_in, sentiments_in, arg>>
    /\ UNCHANGED predictor_vars

NextSentiment == GetSentiment \/ GenerateContent \/ GiveUp \/ AppendSentiment

\* the flow is one sequential loop: a step that can be taken is taken
SpecSentiment == InitSentiment /\ [][NextSentiment]_vars /\ WF_vars(NextSentiment)

(***************************************************************************)
(* Vocabulary of the properties.                                           *)
(***************************************************************************)
Returned == pc = "returned"

ValidLabels == {"positive", "negative", "neutral"}

\* the sentiment records, as passed, whose source name reconciles to symbol
RecordsOf(symbol) ==
    {i \in DOMAIN sentiments_in.rows :
        standardize_name(sentiments_in.rows[i].coin_name) = symbol}

ValidRecordsOf(symbol) ==
    {i \in RecordsOf(symbol) : sentiments_in.rows[i].label \in ValidLabels}

PositiveRecordsOf(symbol) ==
    {i \in RecordsOf(symbol) : sentiments_in.rows[i].label = "positive"}

\* x is the fraction k / n
IsQuotient(x, k, n) == x # NaN /\ x.num * n = k * x.den

PredKey(r) ==
    <<r.coin_name, r.current_price, r.combined_prediction, r.combined_gain_percent>>

OutKey(r) ==
    <<r["Coin Name"], r["Current Price"], r["Estimated Price"], r["Combined Gain %"]>>

(***************************************************************************)
(* C1: the tier score of a gain g is 0 for g < 0, 1 for 0 <= g < 2, 2 for  *)
(* 2 <= g < 4, 3 for 4 <= g < 6, 4 for 6 <= g < 8 and 8 for g >= 8; so     *)
(* score(7.99) = 4, score(8.00) = 8, score(-0.01) = 0, score(0.00) = 1,    *)
(* and nothing but 0, 1, 2, 3, 4, 8 is returned.                           *)
(***************************************************************************)
C1_TierTable ==
    ret # NoValue =>
        LET score == ret[1]
        IN  /\ (arg < 0) => score = 0
            /\ (0 <= arg /\ arg < 200) => score = 1
            /\ (200 <= arg /\ arg < 400) => score = 2
            /\ (400 <= arg /\ arg < 600) => score = 3
            /\ (600 <= arg /\ arg < 800) => score = 4
            /\ (arg >= 800) => score = 8
            /\ (arg = 799) => score = 4
            /\ (arg = 800) => score = 8
            /\ (arg = -1) => score = 0
            /\ (arg = 0) => score = 1
            /\ score \in {0, 1, 2, 3, 4, 8}

C1_Witness == arg = 800 /\ ret = <<8>>

(***************************************************************************)
(* C2: a symbol with n >= 1 sentiment records labelled positive, negative  *)
(* or neutral, k of them positive, has sentiment score exactly k / n, the  *)
(* records of all source names that map to the symbol counted together.    *)
(***************************************************************************)
C2_PositiveShareOfValidRecords ==
    Returned =>
        \A o \in DOMAIN output_df.rows :
            LET row == output_df.rows[o]
                n   == Cardinality(ValidRecordsOf(row["Coin Name"]))
                k   == Cardinality(PositiveRecordsOf(row["Coin Name"]))
            IN  n >= 1 => IsQuotient(row["Sentiment Score"], k, n)

(***************************************************************************)
(* C3: a sentiment row whose label is not positive, negative or neutral    *)
(* is left out of the aggregation: the sentiment scores are those of the   *)
(* same call on the table without such rows.                               *)
(***************************************************************************)
WithoutMalformed(df) ==
    LET IsValid(r) == r.label \in ValidLabels
    IN  [df EXCEPT !.rows = SelectSeq(df.rows, IsValid)]

SentimentScores(df) ==
    {<<OutKey(df.rows[i]), df.rows[i]["Sentiment Score"]>> : i \in DOMAIN df.rows}

C3_MalformedLabelsExcluded ==
    Returned =>
        \A out \in run_scoring_flow(predictions_in, WithoutMalformed(sentiments_in)) :
            SentimentScores(out.output_df) = SentimentScores(output_df)

(***************************************************************************)
(* C4: a prediction row whose coin name has no sentiment record after name *)
(* mapping gets the sentiment score 0 and is kept, also when the sentiment *)
(* table is completely empty; a call on a table with rows raises nothing.  *)
(***************************************************************************)
C4_NoSentimentScoresZero ==
    /\ (pc \in {"returned", "raised"} /\ Len(predictions_in.rows) > 0) => Returned
    /\ Returned =>
        \A i \in DOMAIN predictions_in.rows :
            LET p == predictions_in.rows[i]
            IN  RecordsOf(p.coin_name) = {} =>
                    /\ \E o \in DOMAIN output_df.rows :
                          OutKey(output_df.rows[o]) = PredKey(p)
                    /\ \A o \in DOMAIN output_df.rows :
                          output_df.rows[o]["Coin Name"] = p.coin_name =>
                              output_df.rows[o]["Sentiment Score"] = Zero

\* the pipeline had no sentiment table at all and two assets were scored
C4_Witness ==
    /\ Returned
    /\ sentiments_df = None
    /\ sentiments_in = EmptyDataFrame
    /\ Len(output_df.rows) = 2
    /\ \A o \in DOMAIN output_df.rows : output_df.rows[o]["Sentiment Score"] = Zero

(***************************************************************************)
(* C5: the merge is total and non-duplicating: every row of the prediction *)
(* table appears exactly once in the output, and the output has no row for *)
(* a symbol that is not in the prediction table.                           *)
(***************************************************************************)
C5_MergeTotalNoDuplicates ==
    Returned =>
        LET pred == predictions_in.rows
            out  == output_df.rows
        IN  /\ Len(out) = Len(pred)
            /\ \A i \in DOMAIN pred :
                  Cardinality({o \in DOMAIN out : OutKey(out[o]) = PredKey(pred[i])})
                    = Cardinality({j \in DOMAIN pred : PredKey(pred[j]) = PredKey(pred[i])})
            /\ \A o \in DOMAIN out :
                  \E i \in DOMAIN pred : pred[i].coin_name = out[o]["Coin Name"]

\* a record of a symbol of the prediction table and a record of a symbol
\* the prediction table does not have
C5_Witness ==
    /\ Returned
    /\ Len(predictions_in.rows) = 2
    /\ Len(sentiments_in.rows) >= 2
    /\ \E i, j \in DOMAIN sentiments_in.rows :
          /\ sentiments_in.rows[i].coin_name = sui
          /\ sentiments_in.rows[j].coin_name = Pepe
    /\ predictions_in.rows[1].coin_name = SUI20947
    /\ Len(output_df.rows) = 2

(***************************************************************************)
(* C6: the returned table is in non-increasing order of Total Score.       *)
(***************************************************************************)
C6_SortedByTotalDescending ==
    Returned =>
        \A o \in 1 .. Len(output_df.rows) - 1 :
            ~Less(output_df.rows[o]["Total Score"],
                  output_df.rows[o + 1]["Total Score"])

\* the second prediction row has the higher total and comes out first
C6_Witness ==
    /\ Returned
    /\ Len(output_df.rows) = 2
    /\ OutKey(output_df.rows[1]) = PredKey(predictions_in.rows[2])
    /\ Less(output_df.rows[2]["Total Score"], output_df.rows[1]["Total Score"])

(***************************************************************************)
(* C7: the final sort is stable: two assets with the same Total Score keep *)
(* the relative order they had in the merged table, which is the order of  *)
(* the prediction table.                                                   *)
(***************************************************************************)
C7_SortIsStable ==
    Returned =>
        LET pred == predictions_in.rows
            out  == output_df.rows
            n    == Len(out)
        IN  \E f \in [1..n -> 1..n] :
                /\ \A a, b \in 1..n : a # b => f[a] # f[b]
                /\ \A a \in 1..n : OutKey(out[a]) = PredKey(pred[f[a]])
                /\ \A a, b \in 1..n :
                      (a < b /\ out[a]["Total Score"] = out[b]["Total Score"])
                          => f[a] < f[b]

(***************************************************************************)
(* C8: in every output row Total Score = Prediction Score + Sentiment      *)
(* Score, Sentiment Score is in [0, 1] and Total Score is in [0, 9].       *)
(***************************************************************************)
C8_TotalIsSumInRange ==
    Returned =>
        \A o \in DOMAIN output_df.rows :
            LET p == output_df.rows[o]["Prediction Score"]
                x == output_df.rows[o]["Sentiment Score"]
                t == output_df.rows[o]["Total Score"]
            IN  /\ x # NaN /\ t # NaN
                /\ x.den > 0 /\ t.den > 0
                /\ t.num * x.den = (p * x.den + x.num) * t.den
                /\ 0 <= x.num /\ x.num <= x.den
                /\ 0 <= t.num /\ t.num <= 9 * t.den

\* a row at the top of the range, 8 + 1, and a row at the bottom, 0 + 0
C8_Witness ==
    /\ Returned
    /\ \E o \in DOMAIN output_df.rows :
          /\ output_df.rows[o]["Sentiment Score"] = TrueDiv(1, 1)
          /\ output_df.rows[o]["Total Score"] = TrueDiv(9, 1)
    /\ \E o \in DOMAIN output_df.rows :
          output_df.rows[o]["Total Score"] = Zero

(***************************************************************************)
(* C9: end to end, predictions BTC (60000, 5.0), ETH (3000, 10.0), XRP     *)
(* (0.5, -2.0) with sentiments BITCOIN positive, negative, positive and    *)
(* ETHEREUM positive, negative give BTC 3, 2/3, 3 + 2/3; ETH 8, 1/2, 8.5;  *)
(* XRP 0, 0, 0; in the order ETH, BTC, XRP.                                *)
(***************************************************************************)
ScenarioLabels == <<"positive", "negative", "positive", "positive", "negative">>

ScenarioCalled ==
    /\ Returned
    /\ predictions_in.rows = ScenarioPredictions
    /\ sentiments_in.rows =
          [i \in DOMAIN ScenarioSources |->
              [coin_name |-> ScenarioSources[i], label |-> ScenarioLabels[i]]]

C9_EndToEndScenario ==
    ScenarioCalled =>
        LET out == output_df.rows
        IN  /\ Len(out) = 3
            /\ out[1]["Coin Name"] = ETH
            /\ out[1]["Current Price"] = 300000
            /\ out[1]["Prediction Score"] = 8
            /\ IsQuotient(out[1]["Sentiment Score"], 1, 2)
            /\ IsQuotient(out[1]["Total Score"], 17, 2)
            /\ out[2]["Coin Name"] = BTC
            /\ out[2]["Current Price"] = 6000000
            /\ out[2]["Prediction Score"] = 3
            /\ IsQuotient(out[2]["Sentiment Score"], 2, 3)
            /\ IsQuotient(out[2]["Total Score"], 11, 3)
            /\ out[3]["Coin Name"] = XRP
            /\ out[3]["Current Price"] = 50
            /\ out[3]["Prediction Score"] = 0
            /\ IsQuotient(out[3]["Sentiment Score"], 0, 1)
            /\ IsQuotient(out[3]["Total Score"], 0, 1)

C9_Witness == ScenarioCalled /\ Len(output_df.rows) = 3

(***************************************************************************)
(* C10: every sentiment source name is upper-cased and looked up in the    *)
(* fixed table: 'sui' and 'SUI' become 'SUI20947', 'TONCOIN' becomes       *)
(* 'TON11419', a name that is not in the table becomes its upper-cased     *)
(* form; and the sentiment of a mapped name goes to the prediction row     *)
(* whose coin name is that ticker.                                         *)
(***************************************************************************)
ReconciledName(source) ==
    CASE source = sui     -> SUI20947
      [] source = SUI     -> SUI20947
      [] source = TONCOIN -> TON11419
      [] source = Pepe    -> <<"P", "E", "P", "E">>

C10_NameReconciliation ==
    (Returned /\ sentiments_df # None) =>
        LET before == sentiments_in.rows
            after  == sentiments_df.rows
        IN  /\ Len(after) = Len(before)
            /\ \A i \in DOMAIN before :
                  after[i].coin_name = ReconciledName(before[i].coin_name)
            /\ \A o \in DOMAIN output_df.rows :
                  LET ticker == output_df.rows[o]["Coin Name"]
                      recs   == {i \in DOMAIN before :
                                    ReconciledName(before[i].coin_name) = ticker}
                      pos    == {i \in recs : before[i].label = "positive"}
                      x      == output_df.rows[o]["Sentiment Score"]
                  IN  IF recs = {} THEN x = Zero
                      ELSE IsQuotient(x, Cardinality(pos), Cardinality(recs))

\* 'sui' was rewritten to 'SUI20947' and 'TONCOIN' to 'TON11419', and the
\* rows of both tickers carry their sentiment
C10_Witness ==
    /\ Returned
    /\ sentiments_df # None
    /\ Len(sentiments_in.rows) = 2
    /\ sentiments_in.rows[1] = [coin_name |-> sui, label |-> "positive"]
    /\ sentiments_in.rows[2] = [coin_name |-> TONCOIN, label |-> "positive"]
    /\ sentiments_df.rows[1].coin_name = SUI20947
    /\ sentiments_df.rows[2].coin_name = TON11419
    /\ Len(output_df.rows) = 2
    /\ output_df.rows[1]["Coin Name"] = SUI20947
    /\ output_df.rows[2]["Coin Name"] = TON11419
    /\ \A o \in DOMAIN output_df.rows :
          output_df.rows[o]["Sentiment Score"] = TrueDiv(1, 1)

(***************************************************************************)
(* C11: the name mapping is idempotent: mapping a mapped name again gives  *)
(* the same name, so every ticker of the table and every upper-cased name  *)
(* outside its keys is a fixed point.                                      *)
(***************************************************************************)
C11_MappingIdempotent ==
    Len(ret) = 2 => ret[2] = ret[1]

C11_Witness == arg = sui /\ ret = <<SUI20947, SUI20947>>

(***************************************************************************)
(* C12: a sentiment record whose upper-cased source name is in no table    *)
(* entry and is no prediction coin name is no error: the call completes,   *)
(* the record adds no output row, and every sentiment score is what it is  *)
(* without the record.                                                     *)
(***************************************************************************)
IsUnmappable(name) ==
    /\ upper(name) \notin DOMAIN name_to_symbol_map
    /\ \A i \in DOMAIN predictions_in.rows :
          predictions_in.rows[i].coin_name # upper(name)

WithoutUnmappable(df) ==
    LET Mappable(r) == ~IsUnmappable(r.coin_name)
    IN  [df EXCEPT !.rows = SelectSeq(df.rows, Mappable)]

HasUnmappable ==
    \E i \in DOMAIN sentiments_in.rows : IsUnmappable(sentiments_in.rows[i].coin_name)

C12_UnmappableNameIsNoError ==
    /\ (pc \in {"returned", "raised"} /\ Len(predictions_in.rows) > 0) => Returned
    /\ (Returned /\ HasUnmappable) =>
          /\ Len(output_df.rows) = Len(predictions_in.rows)
          /\ \A o \in DOMAIN output_df.rows, i \in DOMAIN sentiments_in.rows :
                IsUnmappable(sentiments_in.rows[i].coin_name) =>
                    output_df.rows[o]["Coin Name"] # upper(sentiments_in.rows[i].coin_name)
          /\ \A out \in run_scoring_flow(predictions_in,
                                         WithoutUnmappable(sentiments_in)) :
                SentimentScores(out.output_df) = SentimentScores(output_df)

\* 'Pepe' beside a positive 'sui': the SUI20947 row keeps its score of 1
C12_Witness ==
    /\ Returned
    /\ Len(sentiments_in.rows) = 2
    /\ sentiments_in.rows[1] = [coin_name |-> Pepe, label |-> "positive"]
    /\ sentiments_in.rows[2] = [coin_name |-> sui, label |-> "positive"]
    /\ Len(output_df.rows) = 2
    /\ \E o \in DOMAIN output_df.rows :
          /\ output_df.rows[o]["Coin Name"] = SUI20947
          /\ output_df.rows[o]["Sentiment Score"] = TrueDiv(1, 1)
    /\ \E o \in DOMAIN output_df.rows :
          /\ output_df.rows[o]["Coin Name"] = TON11419
          /\ output_df.rows[o]["Sentiment Score"] = Zero

(***************************************************************************)
(* C18: run_scoring_flow leaves its inputs as they were: the prediction    *)
(* table has the same columns and cells after the call, and the sentiment  *)
(* table still holds the source coin names.                                *)
(***************************************************************************)
C18_InputsUntouched ==
    (Returned /\ sentiments_df # None) =>
        /\ predictions_df = predictions_in
        /\ sentiments_df = sentiments_in

(***************************************************************************)
(* Vocabulary of the predictor's properties.                               *)
(***************************************************************************)
SingleReturned == predictor # None /\ batch = NoBatch /\ Len(ret) = 1

HasRecord == SingleReturned /\ ret[1].result # None

Abs(x) == IF x < 0 THEN -x ELSE x

(***************************************************************************)
(* C13: with fewer than 30 closing prices, an empty series included,       *)
(* predict_single_crypto returns None and raises nothing; with 30 or more  *)
(* the insufficient-data skip is not taken.                                *)
(***************************************************************************)
C13_InsufficientDataSkipped ==
    SingleReturned =>
        /\ (arg.env.failure # "download" /\ arg.env.points < 30) =>
              /\ ret[1].result = None
              /\ ret[1].printed = "Insufficient data"
        /\ arg.env.points >= 30 => ret[1].printed # "Insufficient data"
        /\ arg.env.points < 30 => ret[1].result = None

C13_Witness ==
    /\ SingleReturned
    /\ arg.env.failure = "none"
    /\ arg.env.points = 0
    /\ ret[1] = [result |-> None, printed |-> "Insufficient data"]

C13_WitnessEnough ==
    /\ HasRecord
    /\ arg.env.points = 30

(***************************************************************************)
(* C15: in every prediction record the combined forecast is the mean of    *)
(* the ARIMA and the XGBoost forecast, up to the rounding to two decimals: *)
(* within half a hundredth of the mean of the forecasts, hence within one  *)
(* hundredth of the mean of the two stored forecasts.                      *)
(***************************************************************************)
C15_CombinedIsMean ==
    HasRecord =>
        LET r == ret[1].result
        IN  /\ Abs(20 * r.combined_prediction - (arg.env.arima + arg.env.xgb)) <= 10
            /\ Abs(2 * r.combined_prediction
                     - (r.arima_prediction + r.xgboost_prediction)) <= 2

C15_Witness ==
    /\ HasRecord
    /\ arg.env.arima > arg.env.xgb + 10
    /\ ret[1].result.combined_prediction < ret[1].result.arima_prediction
    /\ ret[1].result.combined_prediction > ret[1].result.xgboost_prediction

(***************************************************************************)
(* C16: each of the three gain percentages of a record is                  *)
(* (forecast - current) / current * 100 rounded to two decimals, with the  *)
(* last closing price of the series as current in all three.               *)
(***************************************************************************)
\* gain (hundredths of a percent) is within half a hundredth of
\* 100 * (num / den - current) / current
IsGainOf(gain, num, den, current) ==
    2 * Abs(gain * den * current - 10000 * (num - den * current)) <= den * current

C16_GainsAgainstLastClose ==
    HasRecord =>
        LET r == ret[1].result
            e == arg.env
        IN  /\ IsGainOf(r.arima_gain_percent, e.arima, 1, e.close)
            /\ IsGainOf(r.xgboost_gain_percent, e.xgb, 1, e.close)
            /\ IsGainOf(r.combined_gain_percent, e.arima + e.xgb, 2, e.close)
            /\ Abs(10 * r.current_price - e.close) <= 5

C16_Witness ==
    /\ HasRecord
    /\ arg.env.arima > arg.env.close
    /\ arg.env.xgb < arg.env.close
    /\ ret[1].result.arima_gain_percent > 0
    /\ ret[1].result.xgboost_gain_percent < 0
    /\ ret[1].result.combined_gain_percent # 0

(***************************************************************************)
(* C17: the coin name of a record is the symbol without its trailing       *)
(* '-USD', upper-cased: it is upper-case, does not end in the suffix, and  *)
(* nothing but the trailing suffix is taken out of the symbol.             *)
(***************************************************************************)
EndsWith(s, suffix) ==
    /\ Len(s) >= Len(suffix)
    /\ SubSeq(s, Len(s) - Len(suffix) + 1, Len(s)) = suffix

WithoutTrailingSuffix(symbol) ==
    IF EndsWith(symbol, USD_SUFFIX)
    THEN SubSeq(symbol, 1, Len(symbol) - Len(USD_SUFFIX))
    ELSE symbol

C17_CoinNameIsSymbolWithoutSuffix ==
    HasRecord =>
        LET name == ret[1].result.coin_name
        IN  /\ name = upper(name)
            /\ ~EndsWith(name, USD_SUFFIX)
            /\ name = upper(WithoutTrailingSuffix(arg.symbol))

(***************************************************************************)
(* Vocabulary of the batch's properties.                                   *)
(***************************************************************************)
InInvocation == predictor # None /\ batch.calls >= 1

Finished == InInvocation /\ batch.i = 0

\* what the current invocation has appended to self.results
Gathered ==
    SubSeq(predictor.results, batch.first + 1, Len(predictor.results))

\* the processing of a symbol fails: an exception or insufficient data
Fails(env) == env.failure # "none" \/ env.points < 30

\* the records of the symbols of this invocation that did not fail
RECURSIVE RecordsOfCompleted(_)
RecordsOfCompleted(log) ==
    IF log = <<>> THEN <<>>
    ELSE IF Fails(Head(log).env) THEN RecordsOfCompleted(Tail(log))
    ELSE <<Head(log).result>> \o RecordsOfCompleted(Tail(log))

(***************************************************************************)
(* C14: in predict_all_cryptos failures are isolated per asset: whichever  *)
(* symbols fail, every symbol of the list is processed in order, nothing   *)
(* is raised, and the invocation gathers exactly the records of the        *)
(* symbols that completed, in list order.                                  *)
(***************************************************************************)
C14_FailuresIsolated ==
    InInvocation =>
        /\ \A k \in DOMAIN batch.log :
              /\ batch.log[k].symbol = predictor.symbols[k]
              /\ Fails(batch.log[k].env) <=> batch.log[k].result = None
              /\ ~Fails(batch.log[k].env) =>
                    batch.log[k].result.coin_name = coin_name(predictor.symbols[k])
        /\ Gathered = RecordsOfCompleted(batch.log)
        /\ Finished => Len(batch.log) = Len(predictor.symbols)

\* the first symbol's download fails, the second symbol completes
C14_Witness ==
    /\ Finished
    /\ batch.calls = 1
    /\ Len(predictor.symbols) = 2
    /\ batch.log[1].env.failure = "download"
    /\ batch.log[2].result # None
    /\ predictor.results = <<batch.log[2].result>>

(***************************************************************************)
(* C19: the predictor keeps nothing between invocations: after any         *)
(* sequence of predict_all_cryptos calls the results are those of the most *)
(* recent call alone, at most one per entry of the symbol list.            *)
(***************************************************************************)
C19_NoStateBetweenCalls ==
    Finished =>
        /\ predictor.results = RecordsOfCompleted(batch.log)
        /\ Len(predictor.results) <= Len(predictor.symbols)

(***************************************************************************)
(* C20: in a pipeline run the scoring step starts only after the           *)
(* prediction step has processed every requested symbol, each with a       *)
(* record or skipped, and the table it scores holds all their records.     *)
(***************************************************************************)
PredictionFinished ==
    /\ Finished
    /\ batch.calls = 1
    /\ Len(batch.log) = Len(arg.symbols)
    /\ \A k \in DOMAIN batch.log : batch.log[k].symbol = arg.symbols[k]

C20_ScoringAfterAllPredictions ==
    /\ (node \in {"score", "END"} \/ pc # "build") => PredictionFinished
    /\ node = "score" => predictions_df = get_results_dataframe(predictor)
    /\ pc \in {"returned", "raised"} =>
          predictions_in.rows = RecordsOfCompleted(batch.log)
    /\ pc = "skipped" => RecordsOfCompleted(batch.log) = <<>>

C20_Witness ==
    /\ node = "END"
    /\ pc = "returned"
    /\ Len(arg.symbols) = 2
    /\ batch.log[1].result = None
    /\ batch.log[2].result # None
    /\ Len(output_df.rows) = 1

(***************************************************************************)
(* C21: when every requested asset is skipped the prediction result is an  *)
(* empty table, nothing is raised, and the scoring node returns an empty   *)
(* final scoring without calling run_scoring_flow; when some asset         *)
(* completes the prediction result has rows and run_scoring_flow is        *)
(* called.                                                                 *)
(***************************************************************************)
AllSkipped == RecordsOfCompleted(batch.log) = <<>>

C21_EmptyBatchSkipsScoring ==
    /\ pc # "raised"
    /\ node \in {"get_news", "scrape", "analyze", "score"} =>
          (AllSkipped <=> predictions_df = EmptyDataFrame)
    /\ node = "END" =>
          IF AllSkipped
          THEN /\ pc = "skipped"
               /\ output_df = EmptyDataFrame
               /\ predictions_in = None
          ELSE /\ pc = "returned"
               /\ predictions_in # None
               /\ Len(predictions_in.rows) >= 1
               /\ Len(output_df.rows) = Len(predictions_in.rows)

\* two symbols, both skipped
C21_Witness ==
    /\ node = "END"
    /\ Len(arg.symbols) = 2
    /\ AllSkipped
    /\ pc = "skipped"
    /\ output_df = EmptyDataFrame

\* two symbols, one of them completes
C21_WitnessScored ==
    /\ node = "END"
    /\ Len(arg.symbols) = 2
    /\ Len(RecordsOfCompleted(batch.log)) = 1
    /\ pc = "returned"

(***************************************************************************)
(* C25: whatever horizon predict_days the predictor is built with, the     *)
(* forecast of the refit model reaches past it, so reading the value at    *)
(* the horizon never makes the asset be skipped.                           *)
(***************************************************************************)
C25_ForecastCoversHorizon ==
    (/\ SingleReturned
     /\ arg.env.failure = "none"
     /\ arg.env.points >= MinPoints
     /\ arg.env.close # 0) =>
        /\ predictor.predict_days < ForecastSteps
        /\ ret[1].result # None

(***************************************************************************)
(* C29, as stated: a last close of 0 gives no record, and every record has *)
(* a non-zero current price.                                               *)
(***************************************************************************)
C29_RecordsHaveNonZeroPrice ==
    /\ (SingleReturned /\ arg.env.close = 0) => ret[1].result = None
    /\ HasRecord => ret[1].result.current_price # 0

(***************************************************************************)
(* C29, amended: a last close of 0 gives no record (the asset is skipped   *)
(* through the exception handler), so every record was computed from a     *)
(* non-zero last close and its three gains are finite quotients by it; the *)
(* stored current price is that close rounded to two decimals.             *)
(***************************************************************************)
C29_NoRecordFromZeroClose ==
    /\ (SingleReturned /\ arg.env.close = 0) =>
          /\ ret[1].result = None
          /\ arg.env.failure = "none" /\ arg.env.points >= MinPoints =>
                ret[1].printed = "Error analyzing"
    /\ HasRecord =>
          /\ arg.env.close # 0
          /\ IsGainOf(ret[1].result.arima_gain_percent, arg.env.arima, 1, arg.env.close)
          /\ IsGainOf(ret[1].result.xgboost_gain_percent, arg.env.xgb, 1, arg.env.close)
          /\ Abs(10 * ret[1].result.current_price - arg.env.close) <= 5

C29_Witness ==
    /\ SingleReturned
    /\ arg.env.failure = "none"
    /\ arg.env.points = MinPoints
    /\ arg.env.close = 0
    /\ arg.env.arima > 0
    /\ predictor.predict_days = DefaultPredictDays
    /\ ret[1] = [result |-> None, printed |-> "Error analyzing"]

(***************************************************************************)
(* Vocabulary of the order search's properties.                            *)
(***************************************************************************)
Searched == Len(ret) >= 1 /\ DOMAIN arg = Orders

\* the place of an order when p is outermost, then d, then q
PlaceOf(order) == order[1] * 8 + order[2] * 4 + order[3] + 1

SomeConverges == \E o \in Orders : arg[o].converged

(***************************************************************************)
(* C22: find_best_arima_order evaluates exactly the 32 orders with p in    *)
(* 0..3, d in 0..1, q in 0..3, p outermost, then d, then q, and returns an *)
(* order of minimal MSE among them, the first such in that order.          *)
(***************************************************************************)
C22_GridSearchFirstMinimum ==
    Searched =>
        LET results == ret[1].results
            best    == ret[1].best
        IN  /\ Len(results) = 32
            /\ \A p \in 0..3, d \in 0..1, q \in 0..3 :
                  results[PlaceOf(<<p, d, q>>)].arima_order = <<p, d, q>>
            /\ best = results[PlaceOf(best.arima_order)]
            /\ \A i \in DOMAIN results : ~MseLess(results[i].mse, best.mse)
            /\ \A i \in 1..(PlaceOf(best.arima_order) - 1) :
                  MseLess(best.mse, results[i].mse)

\* two orders share the least MSE, and the earlier of them is returned
C22_Witness ==
    /\ Searched
    /\ arg[<<0, 0, 0>>] = [converged |-> TRUE, mse |-> 1]
    /\ arg[<<1, 0, 2>>] = [converged |-> TRUE, mse |-> 0]
    /\ arg[<<2, 1, 3>>] = [converged |-> TRUE, mse |-> 0]
    /\ ret[1].best.arima_order = <<1, 0, 2>>

(***************************************************************************)
(* C23: a candidate whose fit or forecast fails gets MSE +infinity and     *)
(* nothing is raised; when some candidate converges with a finite MSE the  *)
(* selected order is a converged one, never a failed one.                  *)
(***************************************************************************)
C23_FailedFitIsInfinite ==
    Searched =>
        LET results == ret[1].results
            best    == ret[1].best
        IN  /\ \A i \in DOMAIN results :
                  ~arg[results[i].arima_order].converged =>
                      /\ results[i].mse = Inf
                      /\ results[i].model_fit = None
            /\ SomeConverges =>
                  /\ arg[best.arima_order].converged
                  /\ ~best.mse.inf
                  /\ best.model_fit # None

\* every order fails but two; the earlier of the two has the larger MSE
C23_Witness ==
    /\ Searched
    /\ ~arg[<<0, 0, 0>>].converged
    /\ arg[<<0, 1, 1>>] = [converged |-> TRUE, mse |-> 1]
    /\ arg[<<3, 1, 3>>] = [converged |-> TRUE, mse |-> 0]
    /\ ret[1].best.arima_order = <<3, 1, 3>>
    /\ ret[1].results[1].mse = Inf

FeaturesBuilt == Len(ret) = 1 /\ predictor # None /\ DOMAIN arg = {"prices", "forecast"}

Horizon == predictor.predict_days

NumPrices == Len(arg.prices)

AllFinite(row) ==
    /\ ~HasNaN(row)
    /\ \A w \in DOMAIN row.momentum : row.momentum[w] # Inf

(***************************************************************************)
(* C26: the feature matrix is fully dense: for N prices, windows 5/10/20   *)
(* and horizon h it holds exactly the rows of time index 20 .. N-1-h       *)
(* (N-20-h rows, none when N <= 20+h), and no row of it has an undefined   *)
(* feature or target.                                                      *)
(***************************************************************************)
C26_FeatureMatrixDense ==
    FeaturesBuilt =>
        LET features_df == ret[1].features_df
            rows        == IF NumPrices <= 20 + Horizon THEN 0
                           ELSE NumPrices - 20 - Horizon
        IN  /\ Len(features_df) = rows
            /\ \A j \in DOMAIN features_df :
                  /\ features_df[j].index = 20 + j - 1
                  /\ AllFinite(features_df[j])

(***************************************************************************)
(* C27: the row the regression model predicts from is the last row of the  *)
(* feature matrix, the one of time index N-1-h; it is in the training set  *)
(* of the final model, with the last close as its training target.         *)
(***************************************************************************)
C27_InferenceRowIsLastTrainingRow ==
    (FeaturesBuilt /\ ~ret[1].raised) =>
        LET r == ret[1]
        IN  /\ r.latest_features = r.X[Len(r.X)]
            /\ r.latest_features.index = NumPrices - 1 - Horizon
            /\ r.y[Len(r.y)].index = r.latest_features.index
            /\ r.y[Len(r.y)].target = Finite(arg.prices[NumPrices])

(***************************************************************************)
(* C28: the ARIMA forecast of the record is the forecast for the step h =  *)
(* predict_days after the last close, the offset by which the regression   *)
(* target lies ahead of its feature row.                                   *)
(***************************************************************************)
C28_ForecastAtHorizon ==
    (FeaturesBuilt /\ ~ret[1].raised) =>
        /\ ret[1].arima_price_prediction = Finite(arg.forecast[Horizon])
        /\ \A j \in DOMAIN ret[1].y :
              ret[1].y[j].target = Finite(arg.prices[ret[1].y[j].index + Horizon + 1])

(***************************************************************************)
(* C30: get_sentiment always ends with one of positive, negative, neutral, *)
(* error and raises nothing: at most 3 calls of the classifier, a retry    *)
(* only after a call that raised, "error" at once for an answer that is no *)
(* label, "error" after three raising calls, and "neutral" without any     *)
(* call for empty or missing content.                                      *)
(***************************************************************************)
\* the label that an answer stands for
ExpectedLabel(text) ==
    CASE text = R_positive -> "positive"
      [] text = R_PositivePadded -> "positive"
      [] text = R_NEGATIVE -> "negative"
      [] text = R_neutral -> "neutral"
      [] OTHER -> "error"

SentimentReturned == sentiment.pc = "returned"

NoContent ==
    \/ sentiment.content.kind \in {"None", "nan"}
    \/ sentiment.content.text = <<>>

C30_Safety ==
    LET calls == sentiment.calls
    IN  /\ Len(calls) <= 3
        /\ \A k \in 1..(Len(calls) - 1) : calls[k].raises
        /\ SentimentReturned =>
              /\ sentiment.label[1] \in {"positive", "negative", "neutral", "error"}
              /\ IF NoContent
                 THEN calls = <<>> /\ sentiment.label[1] = "neutral"
                 ELSE /\ Len(calls) >= 1
                      /\ IF calls[Len(calls)].raises
                         THEN Len(calls) = 3 /\ sentiment.label[1] = "error"
                         ELSE sentiment.label[1] = ExpectedLabel(calls[Len(calls)].text)

C30_GetSentimentTerminates ==
    /\ []C30_Safety
    /\ (sentiment.pc = "entered") ~> SentimentReturned

\* two raising calls, then an answer with padding and a capital
C30_Witness ==
    /\ SentimentReturned
    /\ sentiment.calls = <<Raises, Raises, Answers(R_PositivePadded)>>
    /\ sentiment.label = <<"positive">>

\* three raising calls
C30_WitnessGaveUp ==
    /\ SentimentReturned
    /\ sentiment.calls = <<Raises, Raises, Raises>>
    /\ sentiment.label = <<"error">>

====
